---- MODULE Spec2Model ----
(***************************************************************************)
(* Model of ssmenv.ReplacedEnv (src/ssmenv.go).                            *)
(*                                                                         *)
(* A Go string is a sequence of one-character strings, so that SplitN,     *)
(* HasPrefix and TrimPrefix work on characters as the Go library does.     *)
(* A Go *string is a sequence of length 0 (nil) or 1 (pointer to a value). *)
(* A Go map[string]string is a function whose domain is the set of keys;   *)
(* the returned map is a sequence of length 0 (nil) or 1 (the map).        *)
(***************************************************************************)
EXTENDS Integers, Sequences, FiniteSets

\* Longest list of environment entries given to ReplacedEnv.
MaxEnvs == 2
\* Longest Parameters list in a GetParameters response.
MaxParams == 2

VARIABLES envs, pc, i, orig, ssmKeys, calls, res, ps, todo, ret, err, run, first

vars == <<envs, pc, i, orig, ssmKeys, calls, res, ps, todo, ret, err, run, first>>

----------------------------------------------------------------------------
\* Strings of the program and of the inputs.

ssmPrefix == <<"s", "s", "m", ":", "/", "/">>

EqualsSign == "="

\* strings.Index(s, "="): position of the first "=" from position `from`, 0 if none.
RECURSIVE IndexFrom(_, _)
IndexFrom(s, from) ==
    IF from > Len(s) THEN 0
    ELSE IF s[from] = EqualsSign THEN from
    ELSE IndexFrom(s, from + 1)

\* A split that pads a string without "=" with an empty second part.
SplitNPad(env) ==
    LET at == IndexFrom(env, 1)
    IN  IF at = 0 THEN <<env, <<>>>>
        ELSE <<SubSeq(env, 1, at - 1), SubSeq(env, at + 1, Len(env))>>

\* strings.SplitN(env, "=", 2): the whole string when there is no "=", otherwise
\* the text before the first "=" and the text after it.
SplitN(env) ==
    LET at == IndexFrom(env, 1)
    IN  IF at = 0 THEN <<env>>
        ELSE <<SubSeq(env, 1, at - 1), SubSeq(env, at + 1, Len(env))>>

\* A prefix test that looks at the first character only.
HasPrefixFirstChar(s, prefix) ==
    Len(s) >= 1 /\ s[1] = prefix[1]

\* strings.HasPrefix(s, prefix)
HasPrefix(s, prefix) ==
    Len(s) >= Len(prefix) /\ SubSeq(s, 1, Len(prefix)) = prefix

\* strings.TrimPrefix(s, prefix)
TrimPrefix(s, prefix) ==
    IF HasPrefix(s, prefix) THEN SubSeq(s, Len(prefix) + 1, Len(s)) ELSE s

----------------------------------------------------------------------------
\* Go values.

NilPtr == <<>>
Ptr(s) == <<s>>
Deref(p) == p[1]

NilMap == <<>>
MapOf(m) == <<m>>

EmptyMap == [k \in {} |-> <<>>]

\* A map store that keeps the value a key already has.
MapPutKeepFirst(m, key, value) ==
    [k \in DOMAIN m \cup {key} |-> IF k \in DOMAIN m THEN m[k] ELSE value]

\* m[key] = value on a Go map.
MapPut(m, key, value) ==
    [k \in DOMAIN m \cup {key} |-> IF k = key THEN value ELSE m[k]]

NoError == [kind |-> "nil"]
InvalidEnvVarFormatError(env) ==
    [kind |-> "InvalidEnvVarFormatError", OriginalEnvVar |-> env]
ParameterNotFoundError(key) ==
    [kind |-> "ParameterNotFoundError", Key |-> key]
\* A GetParametersError that drops the error it wraps.
GetParametersErrorNoCause(cause) ==
    [kind |-> "GetParametersError", Cause |-> "nil"]
GetParametersError(cause) ==
    [kind |-> "GetParametersError", Cause |-> cause]
InvalidParametersError(names) ==
    [kind |-> "InvalidParametersError", InvalidParameters |-> names]
NullParameterError == [kind |-> "NullParameterError"]

\* GetParametersError.Unwrap
Unwrap(e) == e.Cause

----------------------------------------------------------------------------
\* Inputs: environment entries, and the answers of the GetParameters stub.

KeyA == <<"A">>
KeyB == <<"B">>
ParamX == <<"x">>
ParamY == <<"y">>

EntryValues ==
    { <<"1">>, <<"s", "=", "1">>, ssmPrefix \o ParamX, ssmPrefix \o ParamY }

WellFormedEntries ==
    { k \o <<EqualsSign>> \o v : k \in {KeyA, KeyB}, v \in EntryValues }

MalformedEntries == { <<"N">>, ssmPrefix \o ParamX }

Entries == WellFormedEntries \cup MalformedEntries

SeqsUpTo(S, n) == UNION { [1..m -> S] : m \in 0..n }

Inputs == SeqsUpTo(Entries, MaxEnvs)

\* types.Parameter values a response may hold.
ParameterPool ==
    { [Name |-> Ptr(ParamX), Value |-> Ptr(<<"v">>)],
      [Name |-> Ptr(ParamX), Value |-> Ptr(ssmPrefix \o ParamY)],
      [Name |-> Ptr(ParamY), Value |-> Ptr(<<"w">>)],
      [Name |-> NilPtr,      Value |-> Ptr(<<"v">>)],
      [Name |-> Ptr(ParamY), Value |-> NilPtr] }

\* Errors GetParameters may return (a cancelled context among them).
NoCause == "nil"
Causes == { "context canceled", "AccessDeniedException" }

InvalidLists == { <<>>, <<ParamX>>, <<ParamY, ParamX>> }

Responses ==
    { [err |-> c, InvalidParameters |-> <<>>, Parameters |-> <<>>] : c \in Causes }
    \cup
    { [err |-> NoCause, InvalidParameters |-> inv, Parameters |-> p] :
        inv \in InvalidLists, p \in SeqsUpTo(ParameterPool, MaxParams) }

NoResponse == [err |-> NoCause, InvalidParameters |-> <<>>, Parameters |-> <<>>]

----------------------------------------------------------------------------
\* batchFetch

\* A loop over res.Parameters that skips the parameters with a nil field.
RECURSIVE ParametersLoopSkipNull(_, _, _)
ParametersLoopSkipNull(params, n, acc) ==
    IF n > Len(params) THEN [ret |-> acc, err |-> NoError]
    ELSE IF params[n].Name = NilPtr \/ params[n].Value = NilPtr
         THEN ParametersLoopSkipNull(params, n + 1, acc)
    ELSE ParametersLoopSkipNull(params, n + 1,
                                MapPut(acc, Deref(params[n].Name), Deref(params[n].Value)))

\* The loop over res.Parameters: the map built so far, or the null error.
RECURSIVE ParametersLoop(_, _, _)
ParametersLoop(params, n, acc) ==
    IF n > Len(params) THEN [ret |-> acc, err |-> NoError]
    ELSE IF params[n].Name = NilPtr \/ params[n].Value = NilPtr
         THEN [ret |-> EmptyMap, err |-> NullParameterError]
    ELSE ParametersLoop(params, n + 1,
                        MapPut(acc, Deref(params[n].Name), Deref(params[n].Value)))

\* A batchFetch that reads the parameters before the invalid names.
batchFetchParametersFirst(r) ==
    IF r.err # NoCause THEN [ret |-> EmptyMap, err |-> GetParametersError(r.err)]
    ELSE LET out == ParametersLoop(r.Parameters, 1, EmptyMap)
         IN  IF out.err # NoError THEN out
             ELSE IF Len(r.InvalidParameters) > 0
                  THEN [ret |-> EmptyMap,
                        err |-> InvalidParametersError(r.InvalidParameters)]
             ELSE out

\* What batchFetch returns for the response r of GetParameters.
batchFetch(r) ==
    IF r.err # NoCause THEN [ret |-> EmptyMap, err |-> GetParametersError(r.err)]
    ELSE IF Len(r.InvalidParameters) > 0
         THEN [ret |-> EmptyMap, err |-> InvalidParametersError(r.InvalidParameters)]
    ELSE ParametersLoop(r.Parameters, 1, EmptyMap)

\* The ssm.GetParametersInput batchFetch builds.
GetParametersInput(keys) == [Names |-> keys, WithDecryption |-> TRUE]

----------------------------------------------------------------------------
\* ReplacedEnv

Init ==
    /\ envs \in Inputs
    /\ pc = "parse"
    /\ i = 1
    /\ orig = EmptyMap
    /\ ssmKeys = <<>>
    /\ calls = <<>>
    /\ res = NoResponse
    /\ ps = EmptyMap
    /\ todo = {}
    /\ ret = NilMap
    /\ err = NoError
    /\ run = 1
    /\ first = EmptyMap

\* return m, e
Return(m, e) ==
    /\ pc' = "done"
    /\ ret' = m
    /\ err' = e

\* One iteration of the loop over envs.
ParseStep ==
    /\ pc = "parse"
    /\ i <= Len(envs)
    /\ LET env == envs[i]
           pair == SplitN(env)
       IN  IF Len(pair) # 2
           THEN /\ Return(NilMap, InvalidEnvVarFormatError(env))
                /\ UNCHANGED <<i, orig, ssmKeys>>
           ELSE LET key == pair[1]
                    value == pair[2]
                IN  /\ orig' = MapPut(orig, key, value)
                    /\ ssmKeys' = IF HasPrefix(value, ssmPrefix)
                                  THEN Append(ssmKeys, TrimPrefix(value, ssmPrefix))
                                  ELSE ssmKeys
                    /\ i' = i + 1
                    /\ UNCHANGED <<pc, ret, err>>
    /\ UNCHANGED <<envs, calls, res, ps, todo, run, first>>

\* An end of the loop that goes on to fetch even when ssmKeys is empty.
ParseDoneAlwaysFetch ==
    /\ pc = "parse"
    /\ i > Len(envs)
    /\ pc' = "fetch"
    /\ UNCHANGED <<envs, i, orig, ssmKeys, calls, res, ps, todo, ret, err, run, first>>

\* After the loop: return orig when nothing is to be fetched.
ParseDone ==
    /\ pc = "parse"
    /\ i > Len(envs)
    /\ IF Len(ssmKeys) = 0
       THEN Return(MapOf(orig), NoError)
       ELSE /\ pc' = "fetch"
            /\ UNCHANGED <<ret, err>>
    /\ UNCHANGED <<envs, i, orig, ssmKeys, calls, res, ps, todo, run, first>>

\* The call of batchFetch: one GetParameters call, answered by the stub.
\* (The log line written before the call changes no state of ReplacedEnv.)
Fetch ==
    /\ pc = "fetch"
    /\ \E r \in Responses :
         /\ calls' = Append(calls, GetParametersInput(ssmKeys))
         /\ res' = r
         /\ LET out == batchFetch(r)
            IN  IF out.err # NoError
                THEN /\ Return(NilMap, out.err)
                     /\ UNCHANGED <<ps, todo>>
                ELSE /\ ps' = out.ret
                     /\ todo' = DOMAIN orig
                     /\ pc' = "rescan"
                     /\ UNCHANGED <<ret, err>>
    /\ UNCHANGED <<envs, i, orig, ssmKeys, run, first>>

\* A loop over orig that hands the map back together with the not-found error.
RescanStepPartial ==
    /\ pc = "rescan"
    /\ \E k \in todo :
         LET v == orig[k]
         IN  IF HasPrefix(v, ssmPrefix)
             THEN LET key == TrimPrefix(v, ssmPrefix)
                  IN  IF key \notin DOMAIN ps
                      THEN /\ Return(MapOf(orig), ParameterNotFoundError(key))
                           /\ UNCHANGED <<orig, todo>>
                      ELSE /\ orig' = [orig EXCEPT ![k] = ps[key]]
                           /\ todo' = todo \ {k}
                           /\ UNCHANGED <<pc, ret, err>>
             ELSE /\ todo' = todo \ {k}
                  /\ UNCHANGED <<orig, pc, ret, err>>
    /\ UNCHANGED <<envs, i, ssmKeys, calls, res, ps, run, first>>

\* One iteration of the loop over orig, which visits the keys in any order.
RescanStep ==
    /\ pc = "rescan"
    /\ \E k \in todo :
         LET v == orig[k]
         IN  IF HasPrefix(v, ssmPrefix)
             THEN LET key == TrimPrefix(v, ssmPrefix)
                  IN  IF key \notin DOMAIN ps
                      THEN /\ Return(NilMap, ParameterNotFoundError(key))
                           /\ UNCHANGED <<orig, todo>>
                      ELSE /\ orig' = [orig EXCEPT ![k] = ps[key]]
                           /\ todo' = todo \ {k}
                           /\ UNCHANGED <<pc, ret, err>>
             ELSE /\ todo' = todo \ {k}
                  /\ UNCHANGED <<orig, pc, ret, err>>
    /\ UNCHANGED <<envs, i, ssmKeys, calls, res, ps, run, first>>

\* After the loop over orig: return orig.
RescanDone ==
    /\ pc = "rescan"
    /\ todo = {}
    /\ Return(MapOf(orig), NoError)
    /\ UNCHANGED <<envs, i, orig, ssmKeys, calls, res, ps, todo, run, first>>

----------------------------------------------------------------------------
\* The caller that feeds a resolved mapping back as KEY=VALUE entries.

KeyOrders(S) ==
    { s \in [1..Cardinality(S) -> S] : \A a, b \in DOMAIN s : a # b => s[a] # s[b] }

Serialise(m, order) ==
    [n \in DOMAIN order |-> order[n] \o <<EqualsSign>> \o m[order[n]]]

Reinvoke ==
    /\ pc = "done"
    /\ run = 1
    /\ err = NoError
    /\ \E order \in KeyOrders(DOMAIN Deref(ret)) :
         envs' = Serialise(Deref(ret), order)
    /\ first' = Deref(ret)
    /\ run' = 2
    /\ pc' = "parse"
    /\ i' = 1
    /\ orig' = EmptyMap
    /\ ssmKeys' = <<>>
    /\ calls' = <<>>
    /\ res' = NoResponse
    /\ ps' = EmptyMap
    /\ todo' = {}
    /\ ret' = NilMap
    /\ err' = NoError

Next ==
    \/ ParseStep
    \/ ParseDone
    \/ Fetch
    \/ RescanStep
    \/ RescanDone
    \/ Reinvoke

Spec == Init /\ [][Next]_vars

----------------------------------------------------------------------------
\* What the properties say about an input, stated on the characters of the
\* entries and on the response, independently of the operators above.

Done == pc = "done"

WellFormed(e) == \E n \in 1..Len(e) : e[n] = "="

FirstEq(e) ==
    CHOOSE n \in 1..Len(e) : e[n] = "=" /\ \A m \in 1..(n - 1) : e[m] # "="

KeyOf(e) == [n \in 1..(FirstEq(e) - 1) |-> e[n]]

ValueOf(e) == [n \in 1..(Len(e) - FirstEq(e)) |-> e[FirstEq(e) + n]]

HasMarker(v) ==
    /\ Len(v) >= Len(ssmPrefix)
    /\ \A n \in 1..Len(ssmPrefix) : v[n] = ssmPrefix[n]

AfterMarker(v) == [n \in 1..(Len(v) - Len(ssmPrefix)) |-> v[Len(ssmPrefix) + n]]

AllWellFormed == \A n \in 1..Len(envs) : WellFormed(envs[n])

\* The entries split on their first "=", a later entry overwriting an earlier one.
ParsedMapping ==
    LET keys == { KeyOf(envs[n]) : n \in 1..Len(envs) }
        last(k) == CHOOSE n \in 1..Len(envs) :
                      /\ KeyOf(envs[n]) = k
                      /\ \A m \in (n + 1)..Len(envs) : KeyOf(envs[m]) # k
    IN  [k \in keys |-> ValueOf(envs[last(k)])]

IndirectedEntries ==
    { n \in 1..Len(envs) : WellFormed(envs[n]) /\ HasMarker(ValueOf(envs[n])) }

ReferencedKeys == { AfterMarker(ValueOf(envs[n])) : n \in IndirectedEntries }

IsNilMap(m) == Len(m) = 0

Fetched == Len(calls) > 0

\* The names of the parameters of the response, nil names left out.
ResponseNames ==
    { Deref(res.Parameters[n].Name) :
        n \in { m \in 1..Len(res.Parameters) : Len(res.Parameters[m].Name) = 1 } }

HasNullParameter ==
    \E n \in 1..Len(res.Parameters) :
        Len(res.Parameters[n].Name) = 0 \/ Len(res.Parameters[n].Value) = 0

\* v is the value the response gives for name: that of its last parameter so named.
ResponseGives(name, v) ==
    \E n \in 1..Len(res.Parameters) :
        /\ res.Parameters[n].Name = <<name>>
        /\ \A m \in (n + 1)..Len(res.Parameters) : res.Parameters[m].Name # <<name>>
        /\ res.Parameters[n].Value = <<v>>

----------------------------------------------------------------------------
\* C1: when every entry is well formed and no value begins with ssm://,
\* GetParameters is never called, and ReplacedEnv returns without error the
\* mapping obtained by splitting each entry on its first "=", later entries
\* overwriting earlier ones with the same key.
C1_NoIndirectionNoFetch ==
    (AllWellFormed /\ IndirectedEntries = {}) =>
        /\ calls = <<>>
        /\ Done => (err = NoError /\ ret = <<ParsedMapping>>)

\* C1 happens: two entries with the same key, the later value holding an "=".
C1_Witness ==
    /\ Done /\ run = 1
    /\ AllWellFormed /\ IndirectedEntries = {}
    /\ Len(envs) = 2
    /\ KeyOf(envs[1]) = KeyOf(envs[2])
    /\ ValueOf(envs[1]) # ValueOf(envs[2])
    /\ WellFormed(ValueOf(envs[2]))

\* C2: for a well-formed input with at least one value beginning with ssm://,
\* exactly one GetParameters call is made, its names are the distinct parameter
\* keys referenced, each appearing once, and decryption is requested.
C2_OneCallDistinctNames ==
    (Done /\ AllWellFormed /\ IndirectedEntries # {}) =>
        /\ Len(calls) = 1
        /\ calls[1].WithDecryption = TRUE
        /\ { calls[1].Names[n] : n \in 1..Len(calls[1].Names) } = ReferencedKeys
        /\ \A a, b \in 1..Len(calls[1].Names) :
               a # b => calls[1].Names[a] # calls[1].Names[b]

\* C3: when ReplacedEnv succeeds, the returned mapping has exactly the keys of
\* the entries; the value of a key is that of the last entry with the key when
\* it does not begin with ssm://, and otherwise the value the response gives
\* for the text after the marker, which is not resolved again.
C3_ResolvedMapping ==
    (Done /\ err = NoError) =>
        /\ ~IsNilMap(ret)
        /\ DOMAIN ret[1] = DOMAIN ParsedMapping
        /\ \A k \in DOMAIN ParsedMapping :
               IF HasMarker(ParsedMapping[k])
               THEN ResponseGives(AfterMarker(ParsedMapping[k]), ret[1][k])
               ELSE ret[1][k] = ParsedMapping[k]

\* C3 happens: two keys reference one parameter, which the response lists twice,
\* and the value they both receive itself begins with ssm://.
C3_Witness ==
    /\ Done /\ err = NoError /\ run = 1 /\ Fetched
    /\ \E a, b \in DOMAIN ParsedMapping :
         /\ a # b
         /\ HasMarker(ParsedMapping[a])
         /\ ParsedMapping[a] = ParsedMapping[b]
         /\ ret[1][a] = ret[1][b]
         /\ HasMarker(ret[1][a])
    /\ Len(res.Parameters) = 2
    /\ res.Parameters[1].Name = res.Parameters[2].Name
    /\ res.Parameters[1].Value # res.Parameters[2].Value

\* C4: when some entry has no "=", GetParameters is never called, and
\* ReplacedEnv returns no mapping and the format error carrying the first such
\* entry.
C4_FormatError ==
    (~AllWellFormed) =>
        /\ calls = <<>>
        /\ Done =>
             /\ IsNilMap(ret)
             /\ err.kind = "InvalidEnvVarFormatError"
             /\ \E n \in 1..Len(envs) :
                  /\ ~WellFormed(envs[n])
                  /\ \A m \in 1..(n - 1) : WellFormed(envs[m])
                  /\ err.OriginalEnvVar = envs[n]

\* C4 happens: the entry without "=" follows an entry whose value begins with
\* ssm://.
C4_Witness ==
    /\ Done
    /\ Len(envs) = 2
    /\ 1 \in IndirectedEntries
    /\ ~WellFormed(envs[2])
    /\ err.kind = "InvalidEnvVarFormatError"

\* C5: when GetParameters succeeds and its response lists invalid names,
\* ReplacedEnv returns no mapping and the invalid-parameters error carrying
\* exactly that list, whatever else the response holds, and resolves no key.
C5_InvalidParameters ==
    (Done /\ Fetched /\ res.err = NoCause /\ Len(res.InvalidParameters) > 0) =>
        /\ IsNilMap(ret)
        /\ err.kind = "InvalidParametersError"
        /\ err.InvalidParameters = res.InvalidParameters
        /\ orig = ParsedMapping

\* C5 happens: the response lists invalid names and also holds a parameter with
\* a nil field, a valid parameter, and omits a requested key.
C5_Witness ==
    /\ Done /\ Fetched /\ res.err = NoCause
    /\ Len(res.InvalidParameters) = 2
    /\ HasNullParameter
    /\ ResponseNames # {}
    /\ ReferencedKeys \ ResponseNames # {}

\* C6: when GetParameters succeeds with no invalid name and no nil field, and
\* the response omits a name of the request, ReplacedEnv returns no mapping and
\* the not-found error for a requested key absent from the response.
C6_OmittedKeyNotFound ==
    (/\ Done /\ Fetched /\ res.err = NoCause
     /\ Len(res.InvalidParameters) = 0
     /\ ~HasNullParameter
     /\ \E n \in 1..Len(calls[1].Names) : calls[1].Names[n] \notin ResponseNames) =>
        /\ IsNilMap(ret)
        /\ err.kind = "ParameterNotFoundError"
        /\ err.Key \in ReferencedKeys \ ResponseNames

\* C7 as stated: whenever ReplacedEnv succeeds with a mapping, running it again
\* on that mapping serialised as KEY=VALUE entries makes no GetParameters call
\* and returns the same mapping, whatever the fetched values were.
C7_IdempotentForEveryValue ==
    (run = 2) =>
        /\ calls = <<>>
        /\ Done => (err = NoError /\ ret = <<first>>)

\* C7, amended: when ReplacedEnv succeeds with a mapping none of whose values
\* begins with ssm://, running it again on that mapping serialised as KEY=VALUE
\* entries makes no GetParameters call and returns the same mapping.
C7_IdempotentWithoutMarker ==
    (run = 2 /\ \A k \in DOMAIN first : ~HasMarker(first[k])) =>
        /\ calls = <<>>
        /\ Done => (err = NoError /\ ret = <<first>>)

\* C7 happens: the second run has returned a mapping of two keys, one holding a
\* fetched value and one a value with an "=" that begins like the marker.
C7_Witness ==
    /\ run = 2 /\ Done
    /\ \A k \in DOMAIN first : ~HasMarker(first[k])
    /\ \E a, b \in DOMAIN first :
         /\ first[a] \in { <<"v">>, <<"w">> }
         /\ WellFormed(first[b])
         /\ first[b][1] = ssmPrefix[1]

\* The position of the invocation, which every step of it lowers.
PcRank ==
    CASE pc = "parse" -> 3
      [] pc = "fetch" -> 2
      [] pc = "rescan" -> 1
      [] pc = "done" -> 0

Remaining ==
    CASE pc = "parse" -> Len(envs) + 1 - i
      [] pc = "rescan" -> Cardinality(todo)
      [] OTHER -> 0

Invocation == ParseStep \/ ParseDone \/ Fetch \/ RescanStep \/ RescanDone

FiveKinds ==
    { "InvalidEnvVarFormatError", "GetParametersError", "InvalidParametersError",
      "NullParameterError", "ParameterNotFoundError" }

C8_Outcome ==
    /\ Remaining >= 0
    /\ ~Done => (ENABLED Invocation /\ IsNilMap(ret) /\ err = NoError)
    /\ Done => \/ ~IsNilMap(ret) /\ err = NoError
               \/ IsNilMap(ret) /\ err.kind \in FiveKinds

C8_Progress ==
    (run' = run) =>
        \/ PcRank' < PcRank
        \/ PcRank' = PcRank /\ Remaining' < Remaining

\* C8: every invocation of ReplacedEnv ends (a step is enabled until it has
\* returned, and every step lowers its position), and it ends either with a
\* mapping and no error, or with no mapping and an error of one of the five
\* kinds; a not-found error found after some entries were overwritten does not
\* come with the partly substituted mapping.
C8_TerminatesWithOneOutcome ==
    [] C8_Outcome /\ [][C8_Progress]_vars

\* C8 happens: the not-found error is returned after another entry of the
\* mapping was overwritten with a fetched value.
C8_Witness ==
    /\ Done /\ AllWellFormed
    /\ err.kind = "ParameterNotFoundError"
    /\ \E k \in DOMAIN orig : orig[k] # ParsedMapping[k]

\* C9: ReplacedEnv calls GetParameters at most once; when the call returns an
\* error, ReplacedEnv returns no mapping and the fetch error whose cause is that
\* error, and the call is not repeated.
C9_FetchErrorWrapped ==
    /\ Len(calls) <= 1
    /\ (Done /\ Fetched /\ res.err # NoCause) =>
         /\ IsNilMap(ret)
         /\ err.kind = "GetParametersError"
         /\ Unwrap(err) = res.err
         /\ Len(calls) = 1

\* C9 happens: the call failed on a cancelled context.
C9_Witness ==
    /\ Done /\ Fetched
    /\ res.err = "context canceled"
    /\ err.kind = "GetParametersError"

\* C10: when GetParameters succeeds with no invalid name and a parameter of the
\* response has a nil name or a nil value, ReplacedEnv returns no mapping and
\* the null-field error, whether or not the requested keys are in the response,
\* and before any key is looked up.
C10_NullParameter ==
    (/\ Done /\ Fetched /\ res.err = NoCause
     /\ Len(res.InvalidParameters) = 0
     /\ HasNullParameter) =>
        /\ IsNilMap(ret)
        /\ err = [kind |-> "NullParameterError"]
        /\ orig = ParsedMapping
        /\ ps = EmptyMap

\* C10 happens: the parameter with the nil field is not a requested one, and a
\* requested key is absent from the response.
C10_Witness ==
    /\ Done /\ Fetched /\ res.err = NoCause
    /\ err.kind = "NullParameterError"
    /\ \E n \in 1..Len(res.Parameters) : Len(res.Parameters[n].Name) = 0
    /\ ReferencedKeys \ ResponseNames # {}
    /\ \E m \in 1..Len(res.Parameters) :
         /\ Len(res.Parameters[m].Name) = 1
         /\ res.Parameters[m].Name[1] \in ReferencedKeys

====
